---- MODULE Spec2Model ----
(***************************************************************************)
(* Model of the fruit-catch GameEngine (src/js/gameEngine.js) together     *)
(* with the host's timer facilities it uses (setInterval, setTimeout,      *)
(* requestAnimationFrame).                                                 *)
(*                                                                         *)
(* Every method of the class is an operator from a world record (the       *)
(* engine's fields, the host's armed timers and the notifications the      *)
(* running handler has emitted so far) to the world after the call.  An    *)
(* action runs one whole handler (a public call or one timer callback)     *)
(* and commits the resulting world.                                        *)
(*                                                                         *)
(* Time is relative: an item carries age = Date.now() - createdAt, a       *)
(* timer the delay left before it may fire.  Timers never fire early and   *)
(* may fire late; animation frames have no deadline.                       *)
(*                                                                         *)
(* The five callback slots are taken as registered before start(), as      *)
(* main.js does (setupGameCallbacks), so every notification is recorded.   *)
(* gameStartTime is written by start() and read nowhere: it is left out.   *)
(***************************************************************************)
EXTENDS Integers, Sequences, FiniteSets, Bags

\* ------------------------------------------------------------ bounds
\* Items in the collection at once / items created per session / armed
\* host timers at once.
MaxItems == 2
MaxSpawn == 4
MaxTimers == 4
\* Armed host timers at once in the sessions that call start() on an
\* engine that is still Active.
MaxRestartTimers == 6

\* Steps by which the clock advances (ms).
\* One step is long enough for every pending deadline to pass.
Deltas == {20000}
\* The spawner's draws.  LEFT stands for both side lanes: no method
\* tells LEFT from RIGHT other than by comparing an item's zone with
\* basketPosition, which PoseDetected moves over all three zones.
SpawnTypes == {"apple", "bomb"}
SpawnZones == {"LEFT", "CENTER"}
SpawnDelays == {2000}
\* The finer clock steps of the timed sessions: a step after which an
\* item of age 0 is due at level 2 and above but not at level 1, and the
\* rest of a level-up period.
TimedDeltas == {3500, 16500}
\* The draws of the sessions that call start() on an Active engine.
RestartTypes == {"apple"}
RestartZones == {"LEFT", "CENTER"}
\* The draws of the long fruit-only sessions, and their length.
StreakTypes == {"apple", "cherry"}
StreakZones == {"LEFT", "CENTER"}
MaxStreak == 11
\* The classifier's labels stand for the source's Korean strings:
\* "L" = left, "C" = centre, "R" = right.  "none" is a label that names
\* no property of the poseToZone object; "constructor" is a label that
\* names a property every object inherits (constructor, toString, ...).
Poses == {"L", "C", "R", "none", "constructor"}

\* ------------------------------------------------- program constants
maxMisses == 3
MaxLevel == 5
LevelUpPeriod == 20000
ComboBonus5 == 50
ComboBonus10 == 100
Zones == {"LEFT", "CENTER", "RIGHT"}
NULL == "null"
HANDLE == "handle"

itemTypes ==
  [apple      |-> [score |-> 100, isFruit |-> TRUE],
   banana     |-> [score |-> 150, isFruit |-> TRUE],
   watermelon |-> [score |-> 200, isFruit |-> TRUE],
   cherry     |-> [score |-> 250, isFruit |-> TRUE],
   bomb       |-> [score |-> 0,   isFruit |-> FALSE]]

levelConfig ==
  [l \in 1..MaxLevel |->
     [fallDuration |-> CASE l = 1 -> 4000 [] l = 2 -> 3500 [] l = 3 -> 3000
                          [] l = 4 -> 2500 [] OTHER -> 2000]]

\* poseToZone[pose], a property lookup on an object literal: an own
\* property gives its zone, an inherited one gives the inherited member
\* (a function, which is truthy and equal to itself only), any other
\* name gives undefined.
poseToZone ==
  [p \in Poses |-> CASE p = "L" -> "LEFT" [] p = "C" -> "CENTER"
                     [] p = "R" -> "RIGHT" [] p = "constructor" -> "inherited"
                     [] OTHER -> "undefined"]

Min(a, b) == IF a < b THEN a ELSE b
Max(a, b) == IF a > b THEN a ELSE b

\* No fall duration exceeds level 1's: an older item is due at every level.
MaxAge == levelConfig[1].fallDuration

VARIABLES
  isGameActive, score, level, missCount, combo, fruitsCaught,
  basketPosition, items, itemIdCounter,
  levelUpTimer, itemSpawnTimer, animationId,
  timers,      \* the host's armed timers: a bag of [kind, rem, held]
  emitted,     \* the notifications of the last handler, in order
  lastOp,      \* the handler that ran last
  created,     \* ids reported by item-created since the last start()
  removed,     \* per id, the item-removed notifications since then
  gameEnds     \* game-ended notifications since the last start()

vars == <<isGameActive, score, level, missCount, combo, fruitsCaught,
          basketPosition, items, itemIdCounter,
          levelUpTimer, itemSpawnTimer, animationId,
          timers, emitted, lastOp, created, removed, gameEnds>>

\* ------------------------------------------------------- world record
World ==
  [isGameActive |-> isGameActive, score |-> score, level |-> level,
   missCount |-> missCount, combo |-> combo, fruitsCaught |-> fruitsCaught,
   basketPosition |-> basketPosition, items |-> items,
   itemIdCounter |-> itemIdCounter, levelUpTimer |-> levelUpTimer,
   itemSpawnTimer |-> itemSpawnTimer, animationId |-> animationId,
   timers |-> timers, out |-> <<>>]

\* ------------------------------------------------------ notifications
ScoreChange(w) ==
  [kind |-> "scoreChange", score |-> w.score, level |-> w.level,
   missCount |-> w.missCount, combo |-> w.combo]
ItemCreated(item, fallDuration) ==
  [kind |-> "itemCreated", id |-> item.id, type |-> item.type,
   zone |-> item.zone, fallDuration |-> fallDuration]
ItemRemoved(id) == [kind |-> "itemRemoved", id |-> id]
BasketMoved(zone) == [kind |-> "basketMoved", zone |-> zone]
GameEnded(w, reason) ==
  [kind |-> "gameEnded", reason |-> reason, score |-> w.score,
   level |-> w.level, fruitsCaught |-> w.fruitsCaught]

Emit(w, n) == [w EXCEPT !.out = Append(@, n)]

notifyScoreChange(w) == Emit(w, ScoreChange(w))

\* --------------------------------------------------------- host timers
\* The engine never computes with a timer handle: it stores it, tests it
\* for null and hands it back to the host to cancel.  A handle is
\* therefore modelled by what it can do.  A field is NULL or HANDLE, and
\* an armed timer is a record [kind, rem, held], where held says that
\* the engine's field of that kind holds this timer's handle; a field
\* that is HANDLE with no held timer of its kind holds the handle of a
\* timer that has fired or been cancelled.  The armed timers form a bag.
Kinds == {"interval", "timeout", "frame"}
Timer(kind, rem, held) == [kind |-> kind, rem |-> rem, held |-> held]
\* setInterval / setTimeout / requestAnimationFrame, the result being
\* assigned to the field of that kind: the timer the field held before,
\* if it is still armed, stays armed with no reference left to it.
Arm(w, kind, rem) ==
  LET Orphan(t) == IF t.kind = kind THEN [t EXCEPT !.held = FALSE] ELSE t
  IN  [w EXCEPT !.timers = BagOfAll(Orphan, @)
                             (+) SetToBag({Timer(kind, rem, TRUE)})]
\* clearInterval / clearTimeout / cancelAnimationFrame of the handle in
\* the field of that kind: no effect when that timer is no longer armed.
Cancel(w, kind) ==
  LET Keep(t) == ~(t.kind = kind /\ t.held)
      kept == {t \in BagToSet(w.timers) : Keep(t)}
  IN  [w EXCEPT !.timers = [t \in kept |-> w.timers[t]]]
\* The host takes one copy of timer t off the armed timers.
Disarm(B, t) == B (-) SetToBag({t})
Armed(kind) == {t \in BagToSet(timers) : t.kind = kind}

\* ------------------------------------------------------------ methods
\* The timer clean-up that stop() and endGame() both perform.
clearTimers(w) ==
  LET w1 == IF w.levelUpTimer # NULL
              THEN [Cancel(w, "interval") EXCEPT !.levelUpTimer = NULL]
              ELSE w
      w2 == IF w1.itemSpawnTimer # NULL
              THEN [Cancel(w1, "timeout") EXCEPT !.itemSpawnTimer = NULL]
              ELSE w1
  IN  IF w2.animationId # NULL
        THEN [Cancel(w2, "frame") EXCEPT !.animationId = NULL]
        ELSE w2

\* endGame resetting combo as it ends the game.
endGame_ResetCombo(w, reason) ==
  LET w1 == clearTimers([w EXCEPT !.isGameActive = FALSE, !.combo = 0])
  IN  Emit(w1, GameEnded(w1, reason))

\* The reasons "bomb" and "misses" stand for the source's two messages.
endGame(w, reason) ==
  LET w1 == clearTimers([w EXCEPT !.isGameActive = FALSE])
  IN  Emit(w1, GameEnded(w1, reason))

RECURSIVE removeNotices(_, _)
removeNotices(its, i) ==
  IF i > Len(its) THEN <<>>
  ELSE <<ItemRemoved(its[i].id)>> \o removeNotices(its, i + 1)

\* stop() without the final this.items = [].
stop_KeepItems(w) ==
  LET w1 == clearTimers([w EXCEPT !.isGameActive = FALSE])
  IN  [w1 EXCEPT !.out = @ \o removeNotices(w1.items, 1)]

\* stop() reporting the state as well, as start() does.
stop_NotifiesScore(w) ==
  LET w1 == clearTimers([w EXCEPT !.isGameActive = FALSE])
  IN  notifyScoreChange(
        [w1 EXCEPT !.out = @ \o removeNotices(w1.items, 1), !.items = <<>>])

stop(w) ==
  LET w1 == clearTimers([w EXCEPT !.isGameActive = FALSE])
  IN  [w1 EXCEPT !.out = @ \o removeNotices(w1.items, 1), !.items = <<>>]

startLevelUpTimer(w) ==
  [Arm(w, "interval", LevelUpPeriod) EXCEPT !.levelUpTimer = HANDLE]

\* The interval's callback raising the level without reporting it.
levelUpCallback_Silent(w) ==
  IF w.level < MaxLevel
    THEN [w EXCEPT !.level = @ + 1]
    ELSE w

\* The body of the interval's callback.
levelUpCallback(w) ==
  IF w.level < MaxLevel
    THEN notifyScoreChange([w EXCEPT !.level = @ + 1])
    ELSE w

createItem(w, type, zone) ==
  LET item == [id |-> w.itemIdCounter, type |-> type, zone |-> zone, age |-> 0]
      w1 == [w EXCEPT !.itemIdCounter = @ + 1, !.items = Append(@, item)]
      config == levelConfig[Min(w1.level, 5)]
  IN  Emit(w1, ItemCreated(item, config.fallDuration))

\* spawnItem without its test of isGameActive.
spawnItem_Unguarded(w, type, zone, delay) ==
  [Arm(createItem(w, type, zone), "timeout", delay)
     EXCEPT !.itemSpawnTimer = HANDLE]

\* The closure spawnItem of startItemSpawning.
spawnItem(w, type, zone, delay) ==
  IF ~w.isGameActive THEN w
  ELSE [Arm(createItem(w, type, zone), "timeout", delay)
          EXCEPT !.itemSpawnTimer = HANDLE]

startItemSpawning(w, type, zone, delay) == spawnItem(w, type, zone, delay)

checkCollision(w, item) == item.zone = w.basketPosition

\* The fruit branch of handleItemCatch with the bonus paid at every
\* multiple of five.
catchFruit_BonusEveryFive(w, itemData) ==
  LET w1 == [w EXCEPT !.score = @ + itemData.score,
                      !.combo = @ + 1,
                      !.fruitsCaught = @ + 1]
      w2 == IF w1.combo % 5 = 0
              THEN [w1 EXCEPT !.score = @ + ComboBonus5]
              ELSE w1
  IN  notifyScoreChange(w2)

\* The fruit branch of handleItemCatch.
catchFruit(w, itemData) ==
  LET w1 == [w EXCEPT !.score = @ + itemData.score,
                      !.combo = @ + 1,
                      !.fruitsCaught = @ + 1]
      w2 == IF w1.combo = 5
              THEN [w1 EXCEPT !.score = @ + ComboBonus5]
            ELSE IF w1.combo = 10
              THEN [w1 EXCEPT !.score = @ + ComboBonus10]
            ELSE w1
  IN  notifyScoreChange(w2)

\* handleItemCatch with a caught bomb costing a miss instead of the game.
handleItemCatch_BombCostsMiss(w, item) ==
  LET itemData == itemTypes[item.type]
  IN  IF itemData.isFruit
        THEN catchFruit(w, itemData)
        ELSE LET w1 == notifyScoreChange(
                         [w EXCEPT !.missCount = @ + 1, !.combo = 0])
             IN  IF w1.missCount >= maxMisses
                   THEN endGame(w1, "bomb")
                   ELSE w1

handleItemCatch(w, item) ==
  LET itemData == itemTypes[item.type]
  IN  IF itemData.isFruit
        THEN catchFruit(w, itemData)
        ELSE endGame(w, "bomb")

\* handleItemMiss leaving the combo of a missed fruit standing.
handleItemMiss_KeepCombo(w, item) ==
  LET itemData == itemTypes[item.type]
  IN  IF itemData.isFruit
        THEN LET w1 == notifyScoreChange([w EXCEPT !.missCount = @ + 1])
             IN  IF w1.missCount >= maxMisses
                   THEN endGame(w1, "misses")
                   ELSE w1
        ELSE w

\* handleItemMiss ending the game one miss late.
handleItemMiss_OneLate(w, item) ==
  LET itemData == itemTypes[item.type]
  IN  IF itemData.isFruit
        THEN LET w1 == notifyScoreChange(
                         [w EXCEPT !.missCount = @ + 1, !.combo = 0])
             IN  IF w1.missCount > maxMisses
                   THEN endGame(w1, "misses")
                   ELSE w1
        ELSE w

handleItemMiss(w, item) ==
  LET itemData == itemTypes[item.type]
  IN  IF itemData.isFruit
        THEN LET w1 == notifyScoreChange(
                         [w EXCEPT !.missCount = @ + 1, !.combo = 0])
             IN  IF w1.missCount >= maxMisses
                   THEN endGame(w1, "misses")
                   ELSE w1
        ELSE w

\* An item has reached the bottom: progress = elapsed / fallDuration >= 1.
Due(item, config) == item.age >= config.fallDuration

resolveItem(w, item) ==
  IF checkCollision(w, item) THEN handleItemCatch(w, item)
  ELSE handleItemMiss(w, item)

\* The forEach over this.items: the world and itemsToRemove once the
\* first n items have been visited.  The handlers leave this.items as
\* it is, so the scan visits the items the tick began with.
RECURSIVE scanItems(_, _, _)
scanItems(w, n, config) ==
  IF n = 0 THEN [w |-> w, itemsToRemove |-> <<>>]
  ELSE LET before == scanItems(w, n - 1, config)
           item == w.items[n]
       IN  IF Due(item, config)
             THEN [w |-> resolveItem(before.w, item),
                   itemsToRemove |-> Append(before.itemsToRemove, item.id)]
             ELSE before

\* The removal loop notifying without splicing the item out.
RECURSIVE removeItems_NoSplice(_, _, _)
removeItems_NoSplice(w, ids, k) ==
  IF k > Len(ids) THEN w
  ELSE removeItems_NoSplice(Emit(w, ItemRemoved(ids[k])), ids, k + 1)

\* The forEach over itemsToRemove: splice the item out, then notify.
RECURSIVE removeItems(_, _, _)
removeItems(w, ids, k) ==
  IF k > Len(ids) THEN w
  ELSE LET keep(item) == item.id # ids[k]
           w1 == [w EXCEPT !.items = SelectSeq(@, keep)]
       IN  removeItems(Emit(w1, ItemRemoved(ids[k])), ids, k + 1)

\* updateItems judging every item by the fall duration of level 1.
updateItems_FirstLevelConfig(w) ==
  LET config == levelConfig[1]
      scanned == scanItems(w, Len(w.items), config)
  IN  removeItems(scanned.w, scanned.itemsToRemove, 1)

updateItems(w) ==
  LET config == levelConfig[Min(w.level, 5)]
      scanned == scanItems(w, Len(w.items), config)
  IN  removeItems(scanned.w, scanned.itemsToRemove, 1)

gameLoop(w) ==
  IF ~w.isGameActive THEN w
  ELSE [Arm(updateItems(w), "frame", 0) EXCEPT !.animationId = HANDLE]

\* start() without this.items = [].
start_KeepItems(w, type, zone, delay) ==
  LET w1 == [w EXCEPT !.isGameActive = TRUE, !.score = 0, !.level = 1,
                      !.missCount = 0, !.combo = 0, !.fruitsCaught = 0,
                      !.basketPosition = "CENTER", !.itemIdCounter = 0]
      w2 == notifyScoreChange(w1)
      w3 == startLevelUpTimer(w2)
      w4 == startItemSpawning(w3, type, zone, delay)
  IN  gameLoop(w4)

start(w, type, zone, delay) ==
  LET w1 == [w EXCEPT !.isGameActive = TRUE, !.score = 0, !.level = 1,
                      !.missCount = 0, !.combo = 0, !.fruitsCaught = 0,
                      !.basketPosition = "CENTER", !.items = <<>>,
                      !.itemIdCounter = 0]
      w2 == notifyScoreChange(w1)
      w3 == startLevelUpTimer(w2)
      w4 == startItemSpawning(w3, type, zone, delay)
  IN  gameLoop(w4)

onPoseDetected(w, pose) ==
  IF ~w.isGameActive THEN w
  ELSE LET newPosition == poseToZone[pose]
       IN  IF newPosition # "undefined" /\ newPosition # w.basketPosition
             THEN Emit([w EXCEPT !.basketPosition = newPosition],
                       BasketMoved(newPosition))
             ELSE w

\* The passage of d ms: items age, armed timers come nearer to firing.
elapse(w, d) ==
  [w EXCEPT
     !.items = [i \in 1..Len(@) |-> [@[i] EXCEPT !.age = Min(@ + d, MaxAge)]],
     !.timers = LET Later(t) == [t EXCEPT !.rem = Max(@ - d, 0)]
                IN  BagOfAll(Later, @)]

\* ------------------------------------------------------------ actions
IdSpace == 0..Max(MaxSpawn, MaxStreak)

Count(out, kind) == Cardinality({i \in 1..Len(out) : out[i].kind = kind})
IdsOf(out, kind) == {out[i].id : i \in {j \in 1..Len(out) : out[j].kind = kind}}
RemovalsOf(out, id) ==
  Cardinality({i \in 1..Len(out) : out[i].kind = "itemRemoved" /\ out[i].id = id})

\* The world w after handler op becomes the state; fresh says that the
\* handler opened a new session (start()).
Commit(w, op, fresh) ==
  /\ isGameActive' = w.isGameActive
  /\ score' = w.score
  /\ level' = w.level
  /\ missCount' = w.missCount
  /\ combo' = w.combo
  /\ fruitsCaught' = w.fruitsCaught
  /\ basketPosition' = w.basketPosition
  /\ items' = w.items
  /\ itemIdCounter' = w.itemIdCounter
  /\ levelUpTimer' = w.levelUpTimer
  /\ itemSpawnTimer' = w.itemSpawnTimer
  /\ animationId' = w.animationId
  /\ timers' = w.timers
  /\ emitted' = w.out
  /\ lastOp' = op
  /\ created' = (IF fresh THEN {} ELSE created) \cup IdsOf(w.out, "itemCreated")
  /\ removed' = [id \in IdSpace |->
                   (IF fresh THEN 0 ELSE removed[id]) + RemovalsOf(w.out, id)]
  /\ gameEnds' = (IF fresh THEN 0 ELSE gameEnds) + Count(w.out, "gameEnded")

\* The state after the constructor.
Init ==
  /\ isGameActive = FALSE
  /\ score = 0
  /\ level = 1
  /\ missCount = 0
  /\ combo = 0
  /\ fruitsCaught = 0
  /\ basketPosition = "CENTER"
  /\ items = <<>>
  /\ itemIdCounter = 0
  /\ levelUpTimer = NULL
  /\ itemSpawnTimer = NULL
  /\ animationId = NULL
  /\ timers = EmptyBag
  /\ emitted = <<>>
  /\ lastOp = "new"
  /\ created = {}
  /\ removed = [id \in IdSpace |-> 0]
  /\ gameEnds = 0

\* A call of start(), which arms three timers, while the host has room
\* for them.
StartWith(types, zones, maxTimers) ==
  /\ BagCardinality(timers) + 3 <= maxTimers
  /\ \E type \in types, zone \in zones, delay \in SpawnDelays :
       Commit(start(World, type, zone, delay), "start", TRUE)

\* A call of stop(), from any state.
Stop == Commit(stop(World), "stop", FALSE)

\* The pose classifier delivers a label.
PoseDetected == \E pose \in Poses : Commit(onPoseDetected(World, pose), "pose", FALSE)

\* An armed level-up interval whose period has elapsed fires; the host
\* keeps it armed for the next period.
LevelUpFire ==
  \E t \in Armed("interval") :
    /\ t.rem = 0
    /\ LET w == [World EXCEPT !.timers = Disarm(@, t)
                               (+) SetToBag({[t EXCEPT !.rem = LevelUpPeriod]})]
       IN  Commit(levelUpCallback(w), "levelUp", FALSE)

\* An armed spawn timeout whose delay has elapsed fires.
SpawnFireWith(types, zones, maxSpawn, maxItems) ==
  \E t \in Armed("timeout") :
    /\ t.rem = 0
    /\ isGameActive => itemIdCounter < maxSpawn /\ Len(items) < maxItems
    /\ \E type \in types, zone \in zones, delay \in SpawnDelays :
         Commit(spawnItem([World EXCEPT !.timers = Disarm(@, t)], type, zone, delay),
                "spawn", FALSE)

\* The host runs an armed animation-frame callback.
FrameFire ==
  \E t \in Armed("frame") :
    Commit(gameLoop([World EXCEPT !.timers = Disarm(@, t)]), "frame", FALSE)

\* Time passes.
AdvanceBy(deltas) == \E d \in deltas : Commit(elapse(World, d), "time", FALSE)
Advance == AdvanceBy(Deltas)

\* start() on an engine that is not Active, with at most MaxTimers - 3
\* timers of an earlier session still armed.
Start == StartWith(SpawnTypes, SpawnZones, MaxTimers)
SpawnFire == SpawnFireWith(SpawnTypes, SpawnZones, MaxSpawn, MaxItems)

Next ==
  \/ Start
  \/ Stop
  \/ PoseDetected
  \/ LevelUpFire
  \/ SpawnFire
  \/ FrameFire
  \/ Advance

Spec == Init /\ [][Next]_vars

\* Long sessions of fruit only, one item in flight at a time, in which
\* the level-up interval is late throughout: the runs on which combo
\* grows past both bonus thresholds.
StartStreak == StartWith(StreakTypes, StreakZones, MaxTimers)
SpawnStreak == SpawnFireWith(StreakTypes, StreakZones, MaxStreak, 1)

NextStreak ==
  \/ StartStreak
  \/ SpawnStreak
  \/ FrameFire
  \/ Advance

SpecStreak == Init /\ [][NextStreak]_vars

\* Sessions on a finer clock, left to themselves (no stop(), the basket
\* at CENTER): items are scanned at every age and level, before and
\* after a level-up that happens while they fall.
AdvanceTimed == AdvanceBy(TimedDeltas)

NextTimed ==
  \/ Start
  \/ LevelUpFire
  \/ SpawnFire
  \/ FrameFire
  \/ AdvanceTimed

SpecTimed == Init /\ [][NextTimed]_vars

\* Sessions in which start() is also called on an engine that is still
\* Active, the basket left at CENTER.
Restart == StartWith(RestartTypes, RestartZones, MaxRestartTimers)
SpawnRestart == SpawnFireWith(RestartTypes, RestartZones, MaxSpawn, MaxItems)

NextRestart ==
  \/ Restart
  \/ Stop
  \/ LevelUpFire
  \/ SpawnRestart
  \/ FrameFire
  \/ Advance

SpecRestart == Init /\ [][NextRestart]_vars

\* ============================================================ claims
HasNote(out, kind) == \E i \in 1..Len(out) : out[i].kind = kind
HasGameEnded(out, reason) ==
  \E i \in 1..Len(out) : out[i].kind = "gameEnded" /\ out[i].reason = reason
Counters(w) == <<w.score, w.combo, w.missCount, w.fruitsCaught>>

\* What the next frame tick will scan: the fall duration in force and
\* the positions of the items that have reached the bottom.
TickConfig == levelConfig[Min(level, 5)]
DueAt == {n \in 1..Len(items) : Due(items[n], TickConfig)}
CaughtAt(n) == items[n].zone = basketPosition
IsFruit(n) == itemTypes[items[n].type].isFruit
\* A step is a frame tick that runs the scan.
ScanStep == isGameActive /\ lastOp' = "frame"

\* C1: in every reachable state 0 <= missCount <= maxMisses.
C1_MissCountBounded == 0 <= missCount /\ missCount <= maxMisses

\* C2: whenever missCount equals maxMisses the engine is not Active, and
\* only start(), which resets missCount to 0, makes the engine Active.
C2_MaxMissesNotActive ==
  /\ [](missCount = maxMisses => ~isGameActive)
  /\ [][(~isGameActive /\ isGameActive') => (lastOp' = "start" /\ missCount' = 0)]_vars

\* C2 witness: the third miss has ended the game.
C2_Witness ==
  /\ missCount = maxMisses
  /\ ~isGameActive
  /\ lastOp = "frame"
  /\ HasGameEnded(emitted, "misses")

\* C3: a tick that resolves a bomb in the basket's zone leaves the engine
\* not Active and emits game-ended with the bomb reason, whatever
\* missCount, combo, score and level are; the catch itself (the visit of
\* that item in the scan) changes none of score, combo, missCount and
\* fruitsCaught, and neither does a tick in which nothing but bombs falls
\* due.
C3_BombCatchFatal ==
  [][(ScanStep /\ \E n \in DueAt : ~IsFruit(n) /\ CaughtAt(n)) =>
       /\ ~isGameActive'
       /\ HasGameEnded(emitted', "bomb")
       /\ \A n \in DueAt :
            (~IsFruit(n) /\ CaughtAt(n)) =>
              LET before == scanItems(World, n - 1, TickConfig).w
                  after == scanItems(World, n, TickConfig).w
              IN  /\ Counters(after) = Counters(before)
                  /\ ~after.isGameActive
                  /\ after.out = Append(before.out, GameEnded(before, "bomb"))
       /\ (\A n \in DueAt : ~IsFruit(n)) =>
            <<score', combo', missCount', fruitsCaught'>> = Counters(World)
    ]_vars

\* C3 witness: a bomb has been caught in a session that had already
\* missed a fruit, built a combo and levelled up.
C3_Witness ==
  /\ lastOp = "frame"
  /\ HasGameEnded(emitted, "bomb")
  /\ ~isGameActive
  /\ missCount > 0
  /\ combo > 0
  /\ level > 1

\* The bonus of a catch that brings combo to c.
Bonus(c) == IF c = 5 THEN 50 ELSE IF c = 10 THEN 100 ELSE 0

C4_WitnessEleven ==
  /\ lastOp = "frame"
  /\ combo = 11
  /\ fruitsCaught = 11
  /\ score = 11 * 100 + 50 + 100

\* The combo a scan leaves, from the items it resolves in order: a
\* caught fruit adds 1, a missed fruit resets it, a bomb leaves it.
RECURSIVE ComboAfter(_, _)
ComboAfter(c, n) ==
  IF n = 0 THEN c
  ELSE LET prev == ComboAfter(c, n - 1)
       IN  IF n \notin DueAt \/ ~IsFruit(n) THEN prev
           ELSE IF CaughtAt(n) THEN prev + 1
           ELSE 0

\* C5 as claimed: once the game has ended, combo is 0.
C5_ComboZeroAfterEnd == (gameEnds > 0 /\ ~isGameActive) => combo = 0

\* C5 as amended: endGame leaves combo alone.  After the tick that ends
\* the game combo is what the resolved items make it: 0 when the last
\* fruit resolved was missed, the earlier combo when only bombs
\* resolved.  While the engine is not Active combo changes no more, and
\* start() sets it to 0.
C5_ComboAtEnd ==
  [][/\ (ScanStep /\ gameEnds' > gameEnds) => combo' = ComboAfter(combo, Len(items))
     /\ (~isGameActive /\ lastOp' # "start") => combo' = combo
     /\ lastOp' = "start" => combo' = 0
    ]_vars

\* C5 witness: a game ended by a caught bomb with the combo kept.
C5_Witness ==
  /\ lastOp = "frame"
  /\ HasGameEnded(emitted, "bomb")
  /\ ~isGameActive
  /\ combo > 0

ItemIds == {items[n].id : n \in 1..Len(items)}

\* C6 as claimed: when the session has ended or been stopped, every id
\* created in it has been reported removed exactly once.
C6_RoundTrip == ~isGameActive => \A id \in created : removed[id] = 1

\* C6 as amended: no id is reported removed twice or without having been
\* created, and the ids created and not yet reported removed are those
\* of the items in the collection: a tick reports the items it resolves
\* and stop() reports all, while endGame reports none, so the items
\* still falling when the game ends stay unreported.
C6_RemovedOnceOrInCollection ==
  /\ \A id \in IdSpace : removed[id] <= 1
  /\ \A id \in IdSpace : removed[id] = 1 => id \in created
  /\ created = {id \in IdSpace : id < itemIdCounter}
  /\ ItemIds = {id \in created : removed[id] = 0}
  /\ lastOp = "stop" => \A id \in created : removed[id] = 1

\* C6 witness: the game has ended in a tick that reported the item it
\* resolved, with another item left in the collection.
C6_Witness ==
  /\ lastOp = "frame"
  /\ gameEnds > 0
  /\ HasNote(emitted, "itemRemoved")
  /\ items # <<>>

\* C7: a session emits game-ended at most once.
C7_SingleGameEnded == gameEnds <= 1

\* C8: the score, level and fruitsCaught that a game-ended notification
\* carries are those of the engine once the handler that emitted it has
\* returned.
C8_ReportIsFinalState ==
  \A i \in 1..Len(emitted) :
    emitted[i].kind = "gameEnded" =>
      /\ emitted[i].score = score
      /\ emitted[i].level = level
      /\ emitted[i].fruitsCaught = fruitsCaught

\* C9: while the engine is not Active no timer is armed.
C9_NothingArmedWhenInactive == ~isGameActive => timers = EmptyBag

\* C10: a stop() that follows a stop() changes nothing and emits nothing;
\* after either the engine is not Active, the three handles are null and
\* the collection is empty.
C10_StopIdempotent ==
  [][/\ lastOp' = "stop" =>
          /\ ~isGameActive'
          /\ levelUpTimer' = NULL /\ itemSpawnTimer' = NULL /\ animationId' = NULL
          /\ items' = <<>>
          /\ <<score', level', missCount', combo', fruitsCaught'>>
               = <<score, level, missCount, combo, fruitsCaught>>
     /\ (lastOp = "stop" /\ lastOp' = "stop") =>
          /\ emitted' = <<>>
          /\ UNCHANGED <<isGameActive, score, level, missCount, combo,
                         fruitsCaught, basketPosition, items, itemIdCounter,
                         levelUpTimer, itemSpawnTimer, animationId, timers,
                         created, removed, gameEnds>>
    ]_vars

\* C10 witness: stop() has just run on an Active engine and reported the
\* items it dropped.
C10_Witness ==
  /\ lastOp = "stop"
  /\ HasNote(emitted, "itemRemoved")
  /\ items = <<>>
  /\ timers = EmptyBag

\* C11: stop() emits one item-removed per item of the collection, in
\* collection order (which is creation order: ids ascend along the
\* collection), and nothing else; it empties the collection and leaves
\* score, level, missCount, combo, fruitsCaught and basketPosition as
\* they were.
C11_StopSilent ==
  /\ [](\A m, n \in 1..Len(items) : m < n => items[m].id < items[n].id)
  /\ [][lastOp' = "stop" =>
          /\ Len(emitted') = Len(items)
          /\ \A n \in 1..Len(items) :
               emitted'[n] = [kind |-> "itemRemoved", id |-> items[n].id]
          /\ items' = <<>>
          /\ <<score', level', missCount', combo', fruitsCaught', basketPosition'>>
               = <<score, level, missCount, combo, fruitsCaught, basketPosition>>
       ]_vars

\* C11 witness: stop() has just reported two items, in ascending id
\* order, in a session with a score and a moved basket.
C11_Witness ==
  /\ lastOp = "stop"
  /\ Len(emitted) = 2
  /\ emitted[1].kind = "itemRemoved" /\ emitted[2].kind = "itemRemoved"
  /\ emitted[1].id < emitted[2].id
  /\ score > 0
  /\ basketPosition # "CENTER"

\* C12: whatever the state start() was called in, when it returns the
\* engine is Active with score 0, level 1, missCount 0, combo 0,
\* fruitsCaught 0 and the basket at CENTER; the collection holds one
\* item, just spawned, with id 0 of a fresh counter; and the first
\* notification is a score-change carrying 0, 1, 0, 0.
C12_StartResets ==
  lastOp = "start" =>
    /\ isGameActive
    /\ <<score, level, missCount, combo, fruitsCaught>> = <<0, 1, 0, 0, 0>>
    /\ basketPosition = "CENTER"
    /\ Len(items) = 1
    /\ items[1].id = 0 /\ items[1].age = 0
    /\ itemIdCounter = 1
    /\ Len(emitted) = 2
    /\ emitted[1] = [kind |-> "scoreChange", score |-> 0, level |-> 1,
                     missCount |-> 0, combo |-> 0]
    /\ emitted[2] = [kind |-> "itemCreated", id |-> 0, type |-> items[1].type,
                     zone |-> items[1].zone,
                     fallDuration |-> levelConfig[1].fallDuration]

\* A state start() may be called in: a game that has ended with points
\* scored, a level gained, misses counted and an item left in the
\* collection, the basket away from CENTER.
C12_EndedBefore ==
  /\ ~isGameActive /\ gameEnds > 0
  /\ items # <<>>
  /\ score > 0 /\ level > 1 /\ missCount > 0
  /\ basketPosition # "CENTER"
  /\ BagCardinality(timers) + 3 <= MaxTimers

\* C12 witness: start() has returned on an engine whose previous session
\* ended inside a tick (the frame that tick requested is still armed,
\* no longer referenced by animationId).
C12_Witness ==
  /\ lastOp = "start"
  /\ \E t \in BagToSet(timers) : t.kind = "frame" /\ ~t.held
  /\ isGameActive /\ score = 0 /\ Len(items) = 1

\* The labels the engine recognizes.
ZoneLabels == {"L", "C", "R"}
\* The step is a call of onPoseDetected with this label.
PoseStep(pose) ==
  /\ lastOp' = "pose"
  /\ basketPosition' = onPoseDetected(World, pose).basketPosition
  /\ emitted' = onPoseDetected(World, pose).out

\* C13: onPoseDetected changes nothing and emits nothing when the engine
\* is not Active, when the label is none of the three zone labels, or
\* when the label's zone is the current basketPosition; otherwise it
\* sets basketPosition to the label's zone and emits one basket-moved
\* carrying it.  It never changes the counters, the collection or the
\* timers, and basketPosition is always one of LEFT, CENTER, RIGHT.
C13_PoseHandling ==
  /\ [](basketPosition \in Zones)
  /\ [][\A pose \in Poses : PoseStep(pose) =>
          /\ IF ~isGameActive \/ pose \notin ZoneLabels
                \/ poseToZone[pose] = basketPosition
               THEN basketPosition' = basketPosition /\ emitted' = <<>>
               ELSE /\ basketPosition' = poseToZone[pose]
                    /\ emitted' = <<[kind |-> "basketMoved",
                                     zone |-> poseToZone[pose]]>>
          /\ UNCHANGED <<isGameActive, score, level, missCount, combo,
                         fruitsCaught, items, itemIdCounter, levelUpTimer,
                         itemSpawnTimer, animationId, timers>>
       ]_vars

\* C14: start() arms the level-up interval 20 000 ms ahead, and it fires
\* only once its period has elapsed, to fire again a period later.  A
\* firing on an Active engine at level < 5 adds exactly 1 to level and
\* emits exactly one score-change, which carries the new level; score,
\* combo, missCount, fruitsCaught, basketPosition and the collection
\* stay as they were.  So the first firing of a session gives level 2.
C14_LevelUpEffect ==
  /\ [](lastOp = "start" =>
          \E t \in Armed("interval") : t.held /\ t.rem = LevelUpPeriod)
  /\ [][lastOp' = "levelUp" =>
          /\ \E t \in Armed("interval") : t.rem = 0
          /\ \E t \in BagToSet(timers') : t.kind = "interval" /\ t.rem = LevelUpPeriod
          /\ (isGameActive /\ level < 5) =>
               /\ level' = level + 1
               /\ emitted' = <<[kind |-> "scoreChange", score |-> score,
                                level |-> level + 1, missCount |-> missCount,
                                combo |-> combo]>>
          /\ (isGameActive /\ level = 1) => level' = 2
          /\ UNCHANGED <<score, combo, missCount, fruitsCaught,
                         basketPosition, items>>
       ]_vars

\* C14 witness: the first level-up of a session with points scored, a
\* miss counted and an item in the collection.
C14_Witness ==
  /\ lastOp = "levelUp"
  /\ level = 2
  /\ Len(emitted) = 1 /\ emitted[1].kind = "scoreChange" /\ emitted[1].level = 2
  /\ score > 0 /\ missCount > 0 /\ items # <<>>

\* The item-removed notifications of the session so far.
RemovedCount == Cardinality({id \in IdSpace : removed[id] > 0})

\* C15: in a tick, the visit of a due fruit outside the basket's zone
\* adds exactly 1 to missCount, sets combo to 0, emits one score-change
\* carrying these, leaves score, level and fruitsCaught alone, and ends
\* the game with the misses reason if missCount has reached maxMisses;
\* the visit of a due bomb outside the basket's zone changes nothing and
\* emits nothing.  A tick that brings missCount to maxMisses leaves the
\* engine not Active, has emitted game-ended with the misses reason, and
\* by then the session has reported at least maxMisses items removed.
C15_MissResolution ==
  [][ScanStep =>
       /\ missCount' = scanItems(World, Len(items), TickConfig).w.missCount
       /\ \A n \in DueAt :
            ~CaughtAt(n) =>
              LET before == scanItems(World, n - 1, TickConfig).w
                  after == scanItems(World, n, TickConfig).w
                  note == [kind |-> "scoreChange", score |-> before.score,
                           level |-> before.level,
                           missCount |-> before.missCount + 1, combo |-> 0]
                  end == [kind |-> "gameEnded", reason |-> "misses",
                          score |-> before.score, level |-> before.level,
                          fruitsCaught |-> before.fruitsCaught]
              IN  IF IsFruit(n)
                    THEN /\ after.missCount = before.missCount + 1
                         /\ after.combo = 0
                         /\ <<after.score, after.level, after.fruitsCaught>>
                              = <<before.score, before.level, before.fruitsCaught>>
                         /\ IF before.missCount + 1 >= maxMisses
                              THEN /\ after.out = before.out \o <<note, end>>
                                   /\ ~after.isGameActive
                              ELSE /\ after.out = Append(before.out, note)
                                   /\ after.isGameActive = before.isGameActive
                    ELSE after = before
       /\ (missCount < maxMisses /\ missCount' = maxMisses) =>
            /\ ~isGameActive'
            /\ HasGameEnded(emitted', "misses")
            /\ RemovedCount' >= maxMisses
    ]_vars

\* C15 witness: three fruit misses and nothing else have ended a game:
\* three items reported removed, one game-ended, with the misses reason.
C15_Witness ==
  /\ lastOp = "frame"
  /\ missCount = maxMisses /\ fruitsCaught = 0
  /\ RemovedCount = 3
  /\ gameEnds = 1
  /\ HasGameEnded(emitted, "misses")
  /\ ~isGameActive

\* A tick has resolved a bomb outside the basket's zone, and no more.
C15_WitnessBombAvoided ==
  /\ lastOp = "frame"
  /\ isGameActive
  /\ Len(emitted) = 1 /\ emitted[1].kind = "itemRemoved"
  /\ RemovedCount = 1 /\ created = {0}
  /\ <<score, combo, missCount, fruitsCaught>> = <<0, 0, 0, 0>>

\* C16: a tick resolves exactly the items whose age has reached the fall
\* duration of the level current at the tick, each once, as a catch when
\* its zone is basketPosition and as a miss otherwise; the scan leaves
\* the collection as it is; after it the resolved items are gone from
\* the collection, the others stay in their order, and the tick's last
\* notifications are one item-removed per resolved id, in collection
\* order.  No id is ever reported removed twice.
C16_TickResolution ==
  /\ [](\A id \in IdSpace : removed[id] <= 1)
  /\ [][ScanStep =>
          LET fall == levelConfig[level].fallDuration
              isDue(it) == it.age >= fall
              notDue(it) == it.age < fall
              isRemoval(n) == n.kind = "itemRemoved"
              bombEnd(n) == n.kind = "gameEnded" /\ n.reason = "bomb"
              caughtFruit(it) == it.zone = basketPosition /\ itemTypes[it.type].isFruit
              missedFruit(it) == it.zone # basketPosition /\ itemTypes[it.type].isFruit
              caughtBomb(it) == it.zone = basketPosition /\ ~itemTypes[it.type].isFruit
              due == SelectSeq(items, isDue)
          IN  /\ items' = SelectSeq(items, notDue)
              /\ Len(SelectSeq(emitted', isRemoval)) = Len(due)
              /\ \A k \in 1..Len(due) :
                   emitted'[Len(emitted') - Len(due) + k]
                     = [kind |-> "itemRemoved", id |-> due[k].id]
              /\ fruitsCaught' = fruitsCaught + Len(SelectSeq(due, caughtFruit))
              /\ missCount' = missCount + Len(SelectSeq(due, missedFruit))
              /\ Len(SelectSeq(emitted', bombEnd)) = Len(SelectSeq(due, caughtBomb))
              /\ Count(emitted', "scoreChange")
                   = Len(SelectSeq(due, caughtFruit)) + Len(SelectSeq(due, missedFruit))
              /\ \A n \in 0..Len(items) :
                   scanItems(World, n, TickConfig).w.items = items
       ]_vars

\* An item that a level-up made due while it fell: no time has gone since
\* the level-up to level 2, so the item of age 3500 was created at level
\* 1 and announced with 4000 ms; a frame is about to scan it.
C16_EarlyDue ==
  /\ isGameActive /\ level = 2
  /\ \E t \in Armed("interval") : t.held /\ t.rem = LevelUpPeriod
  /\ Armed("frame") # {}
  /\ \E n \in 1..Len(items) : items[n].age = 3500

\* C16 witness: at level 2, with no time gone since the level-up, a tick
\* has resolved an item created at level 1 and left another in the
\* collection.
C16_Witness ==
  /\ lastOp = "frame"
  /\ level = 2
  /\ \E t \in Armed("interval") : t.held /\ t.rem = LevelUpPeriod
  /\ HasNote(emitted, "itemRemoved")
  /\ items # <<>>

\* C17: level is always within 1..5; it changes only by +1 when the
\* level-up timer fires on an Active engine, and back to 1 by start();
\* a level-up timer firing while the engine is not Active changes no
\* level and emits nothing.
C17_LevelDiscipline ==
  /\ [](level \in 1..5)
  /\ [][/\ level' # level =>
            \/ lastOp' = "levelUp" /\ isGameActive /\ level' = level + 1
            \/ lastOp' = "start" /\ level' = 1
        /\ (lastOp' = "levelUp" /\ ~isGameActive) =>
            level' = level /\ emitted' = <<>>
       ]_vars

\* C18: items are created only by start() and by a spawn callback that
\* finds the engine Active, and the engine is Active once they are; a
\* spawn callback that finds the engine not Active creates nothing,
\* emits nothing and arms nothing.  A created item is appended at the
\* end of the collection with an id above every id created earlier in
\* the session, and its item-created notification carries the fall
\* duration of the level in force.  A spawn callback on an Active engine
\* creates one item and schedules the next spawn.
C18_SpawnOnlyActive ==
  [][/\ (HasNote(emitted', "itemCreated") \/ Len(items') > Len(items)
           \/ itemIdCounter' > itemIdCounter) =>
          /\ isGameActive'
          /\ lastOp' \in {"start", "spawn"}
          /\ lastOp' = "spawn" => isGameActive
          /\ LET new == items'[Len(items')]
                 earlier == IF lastOp' = "start" THEN {} ELSE created
                 kept == IF lastOp' = "start" THEN <<>> ELSE items
             IN  /\ Count(emitted', "itemCreated") = 1
                 /\ items' = Append(kept, new)
                 /\ new.age = 0
                 /\ \A id \in earlier : id < new.id
                 /\ emitted'[Len(emitted')]
                      = [kind |-> "itemCreated", id |-> new.id,
                         type |-> new.type, zone |-> new.zone,
                         fallDuration |-> levelConfig[level'].fallDuration]
     /\ (lastOp' = "spawn" /\ ~isGameActive) =>
          /\ emitted' = <<>>
          /\ UNCHANGED <<isGameActive, items, itemIdCounter, itemSpawnTimer>>
          /\ BagCardinality(timers') = BagCardinality(timers) - 1
     /\ (lastOp' = "spawn" /\ isGameActive) =>
          /\ HasNote(emitted', "itemCreated")
          /\ itemSpawnTimer' = HANDLE
          /\ \E t \in BagToSet(timers') : t.kind = "timeout" /\ t.held /\ t.rem > 0
    ]_vars

\* C18 witness: a spawn callback has created the second item of a
\* session at level 2 and announced it with the 3500 ms of that level.
C18_Witness ==
  /\ lastOp = "spawn"
  /\ isGameActive /\ level = 2
  /\ Len(items) = 2 /\ items[2].id > items[1].id
  /\ Len(emitted) = 1 /\ emitted[1].kind = "itemCreated"
  /\ emitted[1].fallDuration = 3500

\* A spawn callback has run on an engine that was stopped: nothing
\* created, nothing scheduled.
C18_WitnessAfterStop ==
  /\ lastOp = "spawn"
  /\ ~isGameActive
  /\ items = <<>> /\ emitted = <<>>
  /\ Armed("timeout") = {}

\* The notifications that report the play of a session.
PlayNotes == {"scoreChange", "itemCreated", "itemRemoved", "basketMoved"}

\* C19: once game-ended has been emitted, no score-change, item-created,
\* item-removed or basket-moved is emitted before the next start():
\* none later in the handler that emitted it, none in a later handler.
C19_GameEndedTerminal ==
  /\ \A i, j \in 1..Len(emitted) :
       (i < j /\ emitted[i].kind = "gameEnded") => emitted[j].kind \notin PlayNotes
  /\ (gameEnds > 0 /\ ~HasNote(emitted, "gameEnded")) =>
       \A j \in 1..Len(emitted) : emitted[j].kind \notin PlayNotes

\* The engine's field for the handle of a timer of this kind.
HandleOf(kind) ==
  CASE kind = "interval" -> levelUpTimer
    [] kind = "timeout" -> itemSpawnTimer
    [] OTHER -> animationId

\* C20: at most one level-up interval, one spawn timeout and one frame
\* callback are armed at any time, and every armed timer is the one its
\* field of the engine refers to.
C20_OneTimerPerKind ==
  /\ \A kind \in Kinds :
       BagCardinality([t \in Armed(kind) |-> timers[t]]) <= 1
  /\ \A t \in BagToSet(timers) : t.held /\ HandleOf(t.kind) = HANDLE

====
